---- MODULE Spec2Model ----
(***************************************************************************)
(* Task orchestration of rapidgen-api: services/task_manager.py            *)
(* (TaskInfo, TaskManager), the worker pool it submits to, the status      *)
(* endpoint of app/routers/image_generation.py that reads the records,     *)
(* and the progress contract of services/image_generation.py.              *)
(*                                                                         *)
(* Granularity.  get_task_status returns the live TaskInfo object, and the *)
(* endpoint reads its attributes after the lock has been released, so      *)
(* every attribute assignment of a record is a step of its own here.  A    *)
(* critical section with one assignment is one step taken while the lock   *)
(* is free; a critical section with several assignments takes the lock on  *)
(* its first step and releases it on its last.                             *)
(***************************************************************************)
EXTENDS Integers, Sequences, FiniteSets, TLC

\* ---------------------------------------------------------------- bounds
MaxTasks == 2
MaxPoolTasks == 3
MaxTime == 1
MaxSteps == 2
MaxAge == 1
MaxLifeTime == 2
MaxCtors == 2

\* ------------------------------------------------------ program constants
MaxWorkers == 2
DefaultSteps == 20
MaxInferenceSteps == 100
LifespanMaxAge == 1

NoThread == 0
NoTask == 0
NoInstance == 0
NoTime == -1
NoStep == -1
NoProgress == -1
None == "None"
\* started_at and completed_at are written and never read: the model keeps
\* whether a datetime has been stored, not which.
Stamp(t) == "datetime"

PENDING == "PENDING"
IN_PROGRESS == "IN_PROGRESS"
COMPLETED == "COMPLETED"
FAILED == "FAILED"

Min(a, b) == IF a < b THEN a ELSE b
Max(a, b) == IF a > b THEN a ELSE b

TaskStatus == {PENDING, IN_PROGRESS, COMPLETED, FAILED}
TerminalStatus == {COMPLETED, FAILED}

TaskIds == 1..Max(MaxTasks, MaxPoolTasks)
WorkersWide == 1..(MaxWorkers + 1)
Workers == 1..MaxWorkers
\* The threads that evaluate TaskManager(): the thread that imports the module
\* (line 278) and the threads that construct the class again.
Importer == 0
Ctors == 0..MaxCtors

\* What the backend returns and the messages it raises with (opaque texts).
\* The requests' num_inference_steps (0: not given).
Requests == {MaxSteps}
\* generate_image: num_steps = request.num_inference_steps or settings.default_steps
NumSteps(request) == IF request = 0 THEN DefaultSteps ELSE request
Results == {"img"}
BackendMessages == {"boom"}
\* image_generation.generate_image wraps every failure in a RuntimeError.
BackendError(m) == "generate_failed: " \o m
\* _execute_task: error_msg = f"task execution error: {str(e)}"
ErrorMsgGeneric(e) == "task_error"

ErrorMsg(e) == "task_error: " \o e

\* ------------------------------------------------------------- TaskInfo
NewTaskInfoProgress10(request, t) ==
    [request |-> request, status |-> PENDING, progress |-> 10, result |-> None,
     error |-> None, created_at |-> t, started_at |-> None, completed_at |-> None]

NewTaskInfo(request, t) ==
    [request |-> request, status |-> PENDING, progress |-> 0, result |-> None,
     error |-> None, created_at |-> t, started_at |-> None, completed_at |-> None]

\* ---------------------------------------------- the record update helpers
\* The k-th assignment of _update_task_status(task_id, status, progress).
UpdateTaskStatusWriteNoStatus(ti, k, status, progress) ==
    IF k = 1 THEN ti ELSE [ti EXCEPT !.progress = progress]

UpdateTaskStatusWrite(ti, k, status, progress) ==
    IF k = 1 THEN [ti EXCEPT !.status = status]
    ELSE [ti EXCEPT !.progress = progress]

\* The assignment of _update_task_progress(task_id, progress).
UpdateTaskProgressWrite(ti, progress) ==
    [ti EXCEPT !.progress = Min(progress, 100)]

\* The k-th assignment of _complete_task(task_id, result) at time t.
CompleteTaskWriteNoResult(ti, k, result, t) ==
    CASE k = 1 -> [ti EXCEPT !.status = COMPLETED]
      [] k = 2 -> [ti EXCEPT !.progress = 100]
      [] k = 3 -> ti
      [] OTHER -> [ti EXCEPT !.completed_at = Stamp(t)]

CompleteTaskWriteNoProgress(ti, k, result, t) ==
    CASE k = 1 -> [ti EXCEPT !.status = COMPLETED]
      [] k = 2 -> ti
      [] k = 3 -> [ti EXCEPT !.result = result]
      [] OTHER -> [ti EXCEPT !.completed_at = Stamp(t)]

CompleteTaskWrite(ti, k, result, t) ==
    CASE k = 1 -> [ti EXCEPT !.status = COMPLETED]
      [] k = 2 -> [ti EXCEPT !.progress = 100]
      [] k = 3 -> [ti EXCEPT !.result = result]
      [] OTHER -> [ti EXCEPT !.completed_at = Stamp(t)]

\* The k-th assignment of _fail_task(task_id, error_message) at time t.
FailTaskWriteNoStatus(ti, k, error_message, t) ==
    CASE k = 1 -> ti
      [] k = 2 -> [ti EXCEPT !.error = error_message]
      [] OTHER -> [ti EXCEPT !.completed_at = Stamp(t)]

FailTaskWriteResetsProgress(ti, k, error_message, t) ==
    CASE k = 1 -> [ti EXCEPT !.status = FAILED, !.progress = 0]
      [] k = 2 -> [ti EXCEPT !.error = error_message]
      [] OTHER -> [ti EXCEPT !.completed_at = Stamp(t)]

FailTaskWrite(ti, k, error_message, t) ==
    CASE k = 1 -> [ti EXCEPT !.status = FAILED]
      [] k = 2 -> [ti EXCEPT !.error = error_message]
      [] OTHER -> [ti EXCEPT !.completed_at = Stamp(t)]

\* int((a / b) * 70) as Python computes it in IEEE-754 doubles, for a <= b:
\* the integer quotient of 70 * a by b, except where a / b is 47/70, whose
\* double lies below 47/70 and whose product with 70 truncates to 46 (the only
\* such quotient for b up to 300).
FloatScale70(a, b) == IF 70 * a = 47 * b THEN 46 ELSE (70 * a) \div b

\* progress_callback: 20 + int(((current_step + 1) / max(1, total_steps)) * 70),
\* capped at 90.
ProgressValueWrap(current_step, total_steps) ==
    20 + (((70 * (current_step + 1)) \div Max(1, total_steps)) % 70)

ProgressValue(current_step, total_steps) ==
    Min(20 + FloatScale70(current_step + 1, Max(1, total_steps)), 90)

\* cleanup_old_tasks: the test that puts a record on tasks_to_remove.
SweepRemovableAnyStatus(ti, cutoff_time) ==
    ti.created_at < cutoff_time

SweepRemovableNotPending(ti, cutoff_time) ==
    /\ ti.status # PENDING
    /\ ti.created_at < cutoff_time

SweepRemovable(ti, cutoff_time) ==
    /\ ti.status \in {COMPLETED, FAILED}
    /\ ti.created_at < cutoff_time

\* ------------------------------------------------------------ the executor
\* ThreadPoolExecutor.submit(fn, task_id): the work queue afterwards; nothing
\* is queued once the executor has been shut down.
SubmitQueue(q, id, isDown) == IF isDown THEN q ELSE Append(q, id)

\* ThreadPoolExecutor.shutdown(wait=True): cancel_futures is False, the queued
\* work items stay queued.
ShutdownQueueCancel(q) == <<>>

ShutdownQueue(q) == q

\* get_task_count: counts[status] += 1 over self._tasks.values(), then
\* counts['total'] = len(self._tasks).
TaskCountAllObjects(h, keys, made) ==
    [s \in TaskStatus \cup {"total"} |->
        IF s = "total" THEN made
        ELSE Cardinality({t \in 1..made : h[t].status = s})]

TaskCount(h, keys, made) ==
    [s \in TaskStatus \cup {"total"} |->
        IF s = "total" THEN Cardinality(keys)
        ELSE Cardinality({t \in keys : h[t].status = s})]

\* ------------------------------------------------------ _execute_task order
\* The statements of _execute_task in program order, as worker positions.
NextPcCompleteFirst(pc) ==
    CASE pc = "lookup" -> "status1"
      [] pc = "status1" -> "status2"
      [] pc = "status2" -> "started"
      [] pc = "started" -> "prog10"
      [] pc = "prog10" -> "backend"
      [] pc = "backend" -> "complete1"
      [] pc = "complete1" -> "complete2"
      [] pc = "complete2" -> "complete3"
      [] pc = "complete3" -> "complete4"
      [] pc = "complete4" -> "prog95"
      [] pc = "prog95" -> "idle"
      [] pc = "fail1" -> "fail2"
      [] pc = "fail2" -> "fail3"
      [] OTHER -> "idle"

NextPcFailStuck(pc) ==
    CASE pc = "lookup" -> "status1"
      [] pc = "status1" -> "status2"
      [] pc = "status2" -> "started"
      [] pc = "started" -> "prog10"
      [] pc = "prog10" -> "backend"
      [] pc = "backend" -> "prog95"
      [] pc = "prog95" -> "complete1"
      [] pc = "complete1" -> "complete2"
      [] pc = "complete2" -> "complete3"
      [] pc = "complete3" -> "complete4"
      [] pc = "complete4" -> "idle"
      [] pc = "fail1" -> "fail2"
      [] pc = "fail2" -> "fail3"
      [] pc = "fail3" -> "dead"
      [] OTHER -> "idle"

NextPc(pc) ==
    CASE pc = "lookup" -> "status1"
      [] pc = "status1" -> "status2"
      [] pc = "status2" -> "started"
      [] pc = "started" -> "prog10"
      [] pc = "prog10" -> "backend"
      [] pc = "backend" -> "prog95"
      [] pc = "prog95" -> "complete1"
      [] pc = "complete1" -> "complete2"
      [] pc = "complete2" -> "complete3"
      [] pc = "complete3" -> "complete4"
      [] pc = "complete4" -> "idle"
      [] pc = "fail1" -> "fail2"
      [] pc = "fail2" -> "fail3"
      [] OTHER -> "idle"

\* ------------------------------------------------------------------ state
VARIABLES
    heap,       \* every TaskInfo object made so far, by task id
    tasks,      \* the keys of TaskManager._tasks
    nextId,     \* how many ids create_task has drawn
    queue,      \* the executor's work queue: task ids submitted, not yet taken
    lock,       \* the owner of TaskManager._lock, NoThread when free
    now,        \* the clock datetime.now reads
    wpc,        \* each pool thread's position in _execute_task
    wtask,      \* its task_id
    wstep,      \* the last current_step its backend call reported
    wmsg,       \* the caught exception's text
    cpc,        \* the caller's position in the public operation it runs
    cid,        \* the id it created or asks about
    cafter,     \* whether its Status call directly follows its own Create
    resp,       \* the endpoint's response, as far as it is built
    scutoff,    \* cleanup_old_tasks: its cutoff_time
    sremoved,   \* cleanup_old_tasks: its removed_count
    counts,     \* get_task_count: the dict it returns
    down,       \* the executor's _shutdown flag
    spc,        \* the position of the thread that calls shutdown
    sbefore,    \* how many create_task calls had returned when it called
    squeued,    \* how many work items were queued when it called
    instance,   \* TaskManager._instance, NoInstance while it is None
    initialized, \* the objects that have the attribute _initialized
    inits,      \* how many times the body of __init__ has been entered
    kpc,        \* each constructing thread's position in TaskManager()
    kobj        \* the object its __new__ returned

vars == <<heap, tasks, nextId, queue, lock, now, wpc, wtask, wstep,
          wmsg, cpc, cid, cafter, resp, scutoff, sremoved, counts, down, spc,
          sbefore, squeued, instance, initialized, inits, kpc, kobj>>

workerVars == <<wpc, wtask, wstep, wmsg>>
clientVars == <<cpc, cid, cafter, resp>>
sweepVars == <<scutoff, sremoved>>
shutVars == <<down, spc, sbefore, squeued>>
ctorVars == <<instance, initialized, inits, kpc, kobj>>

\* Line 59: super().__new__(cls) makes an object that is none of the earlier
\* ones.
NewObject(inst) == inst + 1

\* A response not yet built: no HTTP code, no field read.
Unread == "Unread"
NoResp == [code |-> 0, status |-> Unread, progress |-> NoProgress, body |-> Unread]
\* No get_task_count call is under way.
NoCounts == [s \in TaskStatus \cup {"total"} |-> 0]
\* A slot of the heap no TaskInfo has been made for.
NoObj == [request |-> 0, status |-> None, progress |-> 0, result |-> None,
          error |-> None, created_at |-> NoTime, started_at |-> None,
          completed_at |-> None]

Init ==
    /\ heap = [t \in TaskIds |-> NoObj]
    /\ tasks = {}
    /\ nextId = 0
    /\ queue = <<>>
    /\ lock = NoThread
    /\ now = 0
    /\ wpc = [w \in Workers |-> "idle"]
    /\ wtask = [w \in Workers |-> NoTask]
    /\ wstep = [w \in Workers |-> NoStep]
    /\ wmsg = [w \in Workers |-> None]
    /\ cpc = "idle"
    /\ cid = NoTask
    /\ cafter = FALSE
    /\ resp = NoResp
    /\ scutoff = 0
    /\ sremoved = 0
    /\ counts = NoCounts
    /\ down = FALSE
    /\ spc = "up"
    /\ sbefore = 0
    /\ squeued = 0
    /\ instance = NewObject(NoInstance)
    /\ initialized = {instance}
    /\ inits = 1
    /\ kpc = [k \in Ctors |-> IF k = Importer THEN "imported" ELSE "out"]
    /\ kobj = [k \in Ctors |-> NoInstance]

\* ------------------------------------------------------------ the workers
\* A write through self._tasks.get(task_id): a no-op when the key is gone.
TableWrite(id, ti) ==
    heap' = IF id \in tasks THEN [heap EXCEPT ![id] = ti] ELSE heap

\* The worker moves to position pc; back at "idle" its call has returned.
Advance(w, pc) ==
    /\ wpc' = [wpc EXCEPT ![w] = pc]
    /\ wtask' = IF pc = "idle" THEN [wtask EXCEPT ![w] = NoTask] ELSE wtask

\* ThreadPoolExecutor: an idle pool thread takes the oldest work item.  Idle
\* threads are interchangeable; the lowest-numbered one is taken to be the one
\* that wakes.
Dispatch(w) ==
    /\ wpc[w] = "idle"
    /\ \A v \in Workers : v < w => wpc[v] # "idle"
    /\ queue # <<>>
    /\ wtask' = [wtask EXCEPT ![w] = Head(queue)]
    /\ queue' = Tail(queue)
    /\ wpc' = [wpc EXCEPT ![w] = "lookup"]
    /\ UNCHANGED <<heap, tasks, nextId, lock, now, wstep, wmsg, clientVars,
                   sweepVars,
                   counts, shutVars,
                   ctorVars>>

\* _execute_task, lines 118-122: look the record up; return when it is gone.
Lookup(w) ==
    /\ wpc[w] = "lookup"
    /\ lock = NoThread
    /\ Advance(w, IF wtask[w] \in tasks THEN NextPc("lookup") ELSE "idle")
    /\ UNCHANGED <<heap, tasks, nextId, queue, lock, now, wstep, wmsg,
                   clientVars, sweepVars,
                   counts, shutVars,
                   ctorVars>>

\* _update_task_status(task_id, IN_PROGRESS, 0): status, then progress.
StatusWrite1(w) ==
    /\ wpc[w] = "status1"
    /\ lock = NoThread
    /\ lock' = w
    /\ TableWrite(wtask[w], UpdateTaskStatusWrite(heap[wtask[w]], 1, IN_PROGRESS, 0))
    /\ Advance(w, NextPc("status1"))
    /\ UNCHANGED <<tasks, nextId, queue, now, wstep, wmsg, clientVars, sweepVars,
                   counts, shutVars,
                   ctorVars>>

StatusWrite2(w) ==
    /\ wpc[w] = "status2"
    /\ lock = w
    /\ lock' = NoThread
    /\ TableWrite(wtask[w], UpdateTaskStatusWrite(heap[wtask[w]], 2, IN_PROGRESS, 0))
    /\ Advance(w, NextPc("status2"))
    /\ UNCHANGED <<tasks, nextId, queue, now, wstep, wmsg, clientVars, sweepVars,
                   counts, shutVars,
                   ctorVars>>

\* task_info.started_at = now: through the reference, outside the lock.
Started(w) ==
    /\ wpc[w] = "started"
    /\ heap' = [heap EXCEPT ![wtask[w]].started_at = Stamp(now)]
    /\ Advance(w, NextPc("started"))
    /\ UNCHANGED <<tasks, nextId, queue, lock, now, wstep, wmsg, clientVars,
                   sweepVars,
                   counts, shutVars,
                   ctorVars>>

\* _update_task_progress(task_id, 10); the backend call begins.
Progress10KeepsLock(w) ==
    /\ wpc[w] = "prog10"
    /\ lock = NoThread
    /\ lock' = w
    /\ TableWrite(wtask[w], UpdateTaskProgressWrite(heap[wtask[w]], 10))
    /\ Advance(w, NextPc("prog10"))
    /\ UNCHANGED <<tasks, nextId, queue, now, wstep, wmsg, clientVars,
                   sweepVars, counts, shutVars,
                   ctorVars>>

Progress10(w) ==
    /\ wpc[w] = "prog10"
    /\ lock = NoThread
    /\ TableWrite(wtask[w], UpdateTaskProgressWrite(heap[wtask[w]], 10))
    /\ Advance(w, NextPc("prog10"))
    /\ UNCHANGED <<tasks, nextId, queue, lock, now, wstep, wmsg, clientVars,
                   sweepVars,
                   counts, shutVars,
                   ctorVars>>

\* The backend reports a step: progress_callback(step, num_steps), with step
\* numbers that grow (a repeated step number rewrites the value it wrote).
BackendCallbackTo(w, last) ==
    /\ wpc[w] = "backend"
    /\ lock = NoThread
    /\ \E s \in (wstep[w] + 1)..last :
         /\ wstep' = [wstep EXCEPT ![w] = s]
         /\ TableWrite(wtask[w],
                UpdateTaskProgressWrite(heap[wtask[w]],
                    ProgressValue(s, NumSteps(heap[wtask[w]].request))))
    /\ UNCHANGED <<tasks, nextId, queue, lock, now, wpc, wtask, wmsg, clientVars,
                   sweepVars,
                   counts, shutVars,
                   ctorVars>>

BackendCallback(w) == BackendCallbackTo(w, MaxSteps)

\* The pipeline's own numbering: steps 0 .. num_steps - 1 of the request.
PipelineCallback(w) ==
    BackendCallbackTo(w, NumSteps(heap[wtask[w]].request) - 1)

\* generate_image returns its result.
BackendReturn(w) ==
    /\ wpc[w] = "backend"
    /\ Advance(w, NextPc("backend"))
    /\ wstep' = [wstep EXCEPT ![w] = NoStep]
    /\ UNCHANGED <<heap, tasks, nextId, queue, lock, now, wmsg, clientVars,
                   sweepVars,
                   counts, shutVars,
                   ctorVars>>

\* generate_image raises; the except clause builds error_msg.
BackendRaise(w) ==
    /\ wpc[w] = "backend"
    /\ \E m \in BackendMessages :
         wmsg' = [wmsg EXCEPT ![w] = ErrorMsg(BackendError(m))]
    /\ Advance(w, "fail1")
    /\ wstep' = [wstep EXCEPT ![w] = NoStep]
    /\ UNCHANGED <<heap, tasks, nextId, queue, lock, now, clientVars, sweepVars,
                   counts, shutVars,
                   ctorVars>>

\* _update_task_progress(task_id, 95)
Progress95Skipped(w) ==
    /\ wpc[w] = "prog95"
    /\ lock = NoThread
    /\ heap' = heap
    /\ Advance(w, NextPc("prog95"))
    /\ UNCHANGED <<tasks, nextId, queue, lock, now, wstep, wmsg, clientVars,
                   sweepVars,
                   counts, shutVars,
                   ctorVars>>

Progress95(w) ==
    /\ wpc[w] = "prog95"
    /\ lock = NoThread
    /\ TableWrite(wtask[w], UpdateTaskProgressWrite(heap[wtask[w]], 95))
    /\ Advance(w, NextPc("prog95"))
    /\ UNCHANGED <<tasks, nextId, queue, lock, now, wstep, wmsg, clientVars,
                   sweepVars,
                   counts, shutVars,
                   ctorVars>>

CompletePc == <<"complete1", "complete2", "complete3", "complete4">>
FailPc == <<"fail1", "fail2", "fail3">>

\* _complete_task(task_id, result): four assignments under the lock.
Complete(w, k) ==
    /\ wpc[w] = CompletePc[k]
    /\ lock = IF k = 1 THEN NoThread ELSE w
    /\ lock' = IF k = 4 THEN NoThread ELSE w
    /\ \E r \in Results :
         TableWrite(wtask[w], CompleteTaskWrite(heap[wtask[w]], k, r, now))
    /\ Advance(w, NextPc(CompletePc[k]))
    /\ UNCHANGED <<tasks, nextId, queue, now, wstep, wmsg, clientVars, sweepVars,
                   counts, shutVars,
                   ctorVars>>

\* _fail_task(task_id, error_msg): three assignments under the lock.
Fail(w, k) ==
    /\ wpc[w] = FailPc[k]
    /\ lock = IF k = 1 THEN NoThread ELSE w
    /\ lock' = IF k = 3 THEN NoThread ELSE w
    /\ TableWrite(wtask[w], FailTaskWrite(heap[wtask[w]], k, wmsg[w], now))
    /\ Advance(w, NextPc(FailPc[k]))
    /\ wmsg' = IF k = 3 THEN [wmsg EXCEPT ![w] = None] ELSE wmsg
    /\ UNCHANGED <<tasks, nextId, queue, now, wstep, clientVars, sweepVars,
                   counts, shutVars,
                   ctorVars>>

Worker(w) ==
    \/ Dispatch(w)
    \/ Lookup(w)
    \/ StatusWrite1(w)
    \/ StatusWrite2(w)
    \/ Started(w)
    \/ Progress10(w)
    \/ BackendCallback(w)
    \/ BackendReturn(w)
    \/ BackendRaise(w)
    \/ Progress95(w)
    \/ \E k \in 1..4 : Complete(w, k)
    \/ \E k \in 1..3 : Fail(w, k)

\* ------------------------------------------------------------- create_task
\* Lines 86-90: draw a fresh id, build the TaskInfo and insert it, under the
\* lock.  At most cap ids are drawn.
CreateInsert(cap) ==
    /\ cpc = "idle"
    /\ nextId < cap
    /\ lock = NoThread
    /\ nextId' = nextId + 1
    /\ \E request \in Requests :
         heap' = [heap EXCEPT ![nextId + 1] = NewTaskInfo(request, now)]
    /\ tasks' = tasks \cup {nextId + 1}
    /\ cid' = nextId + 1
    /\ cpc' = "submit"
    /\ UNCHANGED <<queue, lock, now, workerVars, cafter, resp, sweepVars,
                   counts, shutVars,
                   ctorVars>>

\* Line 93: self._executor.submit(self._execute_task, task_id); return task_id.
\* submit raises RuntimeError once the executor has been shut down, and
\* create_task lets it through: the record stays in the table.
CreateSubmit ==
    /\ cpc = "submit"
    /\ queue' = SubmitQueue(queue, cid, down)
    /\ cpc' = IF down THEN "raised" ELSE "created"
    /\ UNCHANGED <<heap, tasks, nextId, lock, now, workerVars, cid, cafter, resp,
                   sweepVars,
                   counts, shutVars,
                   ctorVars>>

\* The caller that got the id, or the exception, goes on to something else.
CreateDone ==
    /\ cpc \in {"created", "raised"}
    /\ cpc' = "idle"
    /\ cid' = NoTask
    /\ UNCHANGED <<heap, tasks, nextId, queue, lock, now, workerVars, cafter,
                   resp, sweepVars,
                   counts, shutVars,
                   ctorVars>>

\* ------------------------------------- the status endpoint, GET /tasks/{id}
\* The caller that got the id asks for its status at once.
StatusAfterCreate ==
    /\ cpc = "created"
    /\ cpc' = "r139"
    /\ cafter' = TRUE
    /\ UNCHANGED <<heap, tasks, nextId, queue, lock, now, workerVars, cid, resp,
                   sweepVars,
                   counts, shutVars,
                   ctorVars>>

\* A request for any id, issued or not.
StatusRequest ==
    /\ cpc = "idle"
    /\ \E id \in 1..MaxTasks : cid' = id
    /\ cpc' = "r139"
    /\ cafter' = FALSE
    /\ UNCHANGED <<heap, tasks, nextId, queue, lock, now, workerVars, resp,
                   sweepVars,
                   counts, shutVars,
                   ctorVars>>

\* Line 139: task_manager.get_task_status(task_id), the lookup under the lock;
\* lines 141-146: 404 when there is no such key.
GetTaskStatusHidesFailed ==
    /\ cpc = "r139"
    /\ lock = NoThread
    /\ IF cid \in tasks /\ heap[cid].status # FAILED
         THEN cpc' = "r149" /\ resp' = resp
         ELSE cpc' = "done" /\ resp' = [resp EXCEPT !.code = 404]
    /\ UNCHANGED <<heap, tasks, nextId, queue, lock, now, workerVars, cid, cafter,
                   sweepVars, counts, shutVars,
                   ctorVars>>

GetTaskStatus ==
    /\ cpc = "r139"
    /\ lock = NoThread
    /\ IF cid \in tasks
         THEN cpc' = "r149" /\ resp' = resp
         ELSE cpc' = "done" /\ resp' = [resp EXCEPT !.code = 404]
    /\ UNCHANGED <<heap, tasks, nextId, queue, lock, now, workerVars, cid, cafter,
                   sweepVars,
                   counts, shutVars,
                   ctorVars>>

\* Line 149: task_info.status == FAILED ?
ReadStatus149 ==
    /\ cpc = "r149"
    /\ cpc' = IF heap[cid].status = FAILED THEN "r150" ELSE "r158"
    /\ UNCHANGED <<heap, tasks, nextId, queue, lock, now, workerVars, cid, cafter,
                   resp, sweepVars,
                   counts, shutVars,
                   ctorVars>>

\* Lines 150-155: task_info.error or the "unknown error" text; HTTP 500.
ReadError150 ==
    /\ cpc = "r150"
    /\ resp' = [resp EXCEPT !.code = 500,
                  !.body = IF heap[cid].error = None THEN "unknown_error"
                           ELSE heap[cid].error]
    /\ cpc' = "done"
    /\ UNCHANGED <<heap, tasks, nextId, queue, lock, now, workerVars, cid, cafter,
                   sweepVars,
                   counts, shutVars,
                   ctorVars>>

\* Line 158: task_info.status == COMPLETED ?
ReadStatus158 ==
    /\ cpc = "r158"
    /\ cpc' = IF heap[cid].status = COMPLETED THEN "r159" ELSE "r175"
    /\ UNCHANGED <<heap, tasks, nextId, queue, lock, now, workerVars, cid, cafter,
                   resp, sweepVars,
                   counts, shutVars,
                   ctorVars>>

\* Lines 159-164: not task_info.result -> HTTP 500.
ReadResult159 ==
    /\ cpc = "r159"
    /\ IF heap[cid].result = None
         THEN /\ resp' = [resp EXCEPT !.code = 500, !.body = "result_missing"]
              /\ cpc' = "done"
         ELSE /\ resp' = resp
              /\ cpc' = "r168"
    /\ UNCHANGED <<heap, tasks, nextId, queue, lock, now, workerVars, cid, cafter,
                   sweepVars,
                   counts, shutVars,
                   ctorVars>>

\* Lines 167-171: TaskCompletedResponse(status=..., progress=..., dataUrl=...).
ReadStatus168 ==
    /\ cpc = "r168"
    /\ resp' = [resp EXCEPT !.status = heap[cid].status]
    /\ cpc' = "r169"
    /\ UNCHANGED <<heap, tasks, nextId, queue, lock, now, workerVars, cid, cafter,
                   sweepVars,
                   counts, shutVars,
                   ctorVars>>

ReadProgress169 ==
    /\ cpc = "r169"
    /\ resp' = [resp EXCEPT !.progress = heap[cid].progress]
    /\ cpc' = "r170"
    /\ UNCHANGED <<heap, tasks, nextId, queue, lock, now, workerVars, cid, cafter,
                   sweepVars,
                   counts, shutVars,
                   ctorVars>>

ReadResult170 ==
    /\ cpc = "r170"
    /\ resp' = [resp EXCEPT !.code = 200, !.body = heap[cid].result]
    /\ cpc' = "done"
    /\ UNCHANGED <<heap, tasks, nextId, queue, lock, now, workerVars, cid, cafter,
                   sweepVars,
                   counts, shutVars,
                   ctorVars>>

\* Lines 174-177: TaskStatusResponse(status=..., progress=...).
ReadStatus175 ==
    /\ cpc = "r175"
    /\ resp' = [resp EXCEPT !.status = heap[cid].status]
    /\ cpc' = "r176"
    /\ UNCHANGED <<heap, tasks, nextId, queue, lock, now, workerVars, cid, cafter,
                   sweepVars,
                   counts, shutVars,
                   ctorVars>>

ReadProgress176 ==
    /\ cpc = "r176"
    /\ resp' = [resp EXCEPT !.code = 200, !.progress = heap[cid].progress,
                            !.body = None]
    /\ cpc' = "done"
    /\ UNCHANGED <<heap, tasks, nextId, queue, lock, now, workerVars, cid, cafter,
                   sweepVars,
                   counts, shutVars,
                   ctorVars>>

\* The response is sent; the caller's locals are gone.
StatusDone ==
    /\ cpc = "done"
    /\ cpc' = "idle"
    /\ cid' = NoTask
    /\ cafter' = FALSE
    /\ resp' = NoResp
    /\ UNCHANGED <<heap, tasks, nextId, queue, lock, now, workerVars, sweepVars,
                   counts, shutVars,
                   ctorVars>>

StatusEndpoint ==
    \/ StatusAfterCreate
    \/ StatusRequest
    \/ GetTaskStatus
    \/ ReadStatus149
    \/ ReadError150
    \/ ReadStatus158
    \/ ReadResult159
    \/ ReadStatus168
    \/ ReadProgress169
    \/ ReadResult170
    \/ ReadStatus175
    \/ ReadProgress176
    \/ StatusDone

\* ------------------------------------------------------ cleanup_old_tasks
\* Line 230: cutoff_time = now - max_age_hours * 3600 (the clock counts hours),
\* read before the lock is taken.
SweepBegin ==
    /\ cpc = "idle"
    /\ \E max_age_hours \in 0..MaxAge : scutoff' = now - max_age_hours
    /\ sremoved' = 0
    /\ cpc' = "scan"
    /\ UNCHANGED <<heap, tasks, nextId, queue, lock, now, workerVars, cid, cafter,
                   resp,
                   counts, shutVars,
                   ctorVars>>

\* Lines 233-244: under the lock, collect the removable keys and delete them.
SweepScanNoLock ==
    /\ cpc = "scan"
    /\ LET tasks_to_remove == {t \in tasks : SweepRemovable(heap[t], scutoff)}
       IN /\ tasks' = tasks \ tasks_to_remove
          /\ sremoved' = Cardinality(tasks_to_remove)
    /\ cpc' = "ret"
    /\ UNCHANGED <<heap, nextId, queue, lock, now, workerVars, cid, cafter, resp,
                   scutoff,
                   counts, shutVars,
                   ctorVars>>

SweepScan ==
    /\ cpc = "scan"
    /\ lock = NoThread
    /\ LET tasks_to_remove == {t \in tasks : SweepRemovable(heap[t], scutoff)}
       IN /\ tasks' = tasks \ tasks_to_remove
          /\ sremoved' = Cardinality(tasks_to_remove)
    /\ cpc' = "ret"
    /\ UNCHANGED <<heap, nextId, queue, lock, now, workerVars, cid, cafter, resp,
                   scutoff,
                   counts, shutVars,
                   ctorVars>>

\* Line 249: return removed_count.
SweepReturn ==
    /\ cpc = "ret"
    /\ cpc' = "idle"
    /\ scutoff' = 0
    /\ sremoved' = 0
    /\ UNCHANGED <<heap, tasks, nextId, queue, lock, now, workerVars, cid, cafter,
                   resp,
                   counts, shutVars,
                   ctorVars>>

Sweeper ==
    \/ SweepBegin
    \/ SweepScan
    \/ SweepReturn

\* --------------------------------------------------------- get_task_count
\* Lines 258-264: the whole iteration under the lock.
GetTaskCount ==
    /\ cpc = "idle"
    /\ lock = NoThread
    /\ counts' = TaskCount(heap, tasks, nextId)
    /\ cpc' = "counted"
    /\ UNCHANGED <<heap, tasks, nextId, queue, lock, now, workerVars, cid, cafter,
                   resp, sweepVars, shutVars,
                   ctorVars>>

\* Line 266: return counts.
CountsReturn ==
    /\ cpc = "counted"
    /\ counts' = NoCounts
    /\ cpc' = "idle"
    /\ UNCHANGED <<heap, tasks, nextId, queue, lock, now, workerVars, cid, cafter,
                   resp, sweepVars, shutVars,
                   ctorVars>>

Counts ==
    \/ GetTaskCount
    \/ CountsReturn

\* ---------------------------------------------------------------- shutdown
\* Line 273: self._executor.shutdown(wait=True), called by whichever thread
\* shuts the manager down.  The flag is set; the queue is left as it is.
ShutdownBegin ==
    /\ spc = "up"
    /\ down' = TRUE
    /\ queue' = ShutdownQueue(queue)
    /\ spc' = "join"
    /\ sbefore' = IF cpc = "submit" THEN nextId - 1 ELSE nextId
    /\ squeued' = Len(queue)
    /\ UNCHANGED <<heap, tasks, nextId, lock, now, workerVars, clientVars,
                   sweepVars, counts,
                   ctorVars>>

\* A pool thread that finds the flag set and no work item left returns.
WorkerExit(w) ==
    /\ wpc[w] = "idle"
    /\ down
    /\ queue = <<>>
    /\ wpc' = [wpc EXCEPT ![w] = "exited"]
    /\ UNCHANGED <<heap, tasks, nextId, queue, lock, now, wtask, wstep, wmsg,
                   clientVars, sweepVars, counts, shutVars,
                   ctorVars>>

\* wait=True: shutdown returns when every pool thread has been joined.
ShutdownReturnNoWait ==
    /\ spc = "join"
    /\ spc' = "returned"
    /\ UNCHANGED <<heap, tasks, nextId, queue, lock, now, workerVars, clientVars,
                   sweepVars, counts, down, sbefore, squeued,
                   ctorVars>>

ShutdownReturn ==
    /\ spc = "join"
    /\ \A w \in Workers : wpc[w] = "exited"
    /\ spc' = "returned"
    /\ UNCHANGED <<heap, tasks, nextId, queue, lock, now, workerVars, clientVars,
                   sweepVars, counts, down, sbefore, squeued,
                   ctorVars>>

Shutdown ==
    \/ ShutdownBegin
    \/ \E w \in Workers : WorkerExit(w)
    \/ ShutdownReturn

\* ------------------------------------------- lifespan, after the yield
\* main.py line 73: task_manager.shutdown().  The lifespan handler and the
\* endpoints are coroutines of one event loop, and neither create_task's
\* endpoint nor lines 73-76 await anything: the handler starts between two
\* endpoint calls, and no endpoint runs until the handler has ended.
LifespanShutdown ==
    \/ cpc = "idle" /\ ShutdownBegin
    \/ \E w \in Workers : WorkerExit(w)
    \/ ShutdownReturn

\* POST /generate while the application serves (router line 88).
ServeCreate ==
    /\ spc = "up"
    /\ \/ CreateInsert(MaxTasks)
       \/ CreateSubmit
       \/ CreateDone

\* main.py line 76: task_manager.cleanup_old_tasks(max_age_hours=1), called by
\* the thread that called shutdown once shutdown has returned.  No other code
\* of the application calls cleanup_old_tasks.
LifespanSweepBegin ==
    /\ spc = "returned"
    /\ scutoff' = now - LifespanMaxAge
    /\ sremoved' = 0
    /\ spc' = "lscan"
    /\ UNCHANGED <<heap, tasks, nextId, queue, lock, now, workerVars, clientVars,
                   counts, down, sbefore, squeued,
                   ctorVars>>

LifespanSweepScan ==
    /\ spc = "lscan"
    /\ lock = NoThread
    /\ LET tasks_to_remove == {t \in tasks : SweepRemovable(heap[t], scutoff)}
       IN /\ tasks' = tasks \ tasks_to_remove
          /\ sremoved' = Cardinality(tasks_to_remove)
    /\ spc' = "lret"
    /\ UNCHANGED <<heap, nextId, queue, lock, now, workerVars, clientVars,
                   scutoff, counts, down, sbefore, squeued,
                   ctorVars>>

\* Lines 77-80: the count is logged and the handler ends.
LifespanEnd ==
    /\ spc = "lret"
    /\ spc' = "ended"
    /\ UNCHANGED <<heap, tasks, nextId, queue, lock, now, workerVars, clientVars,
                   sweepVars, counts, down, sbefore, squeued,
                   ctorVars>>

LifespanCleanup ==
    \/ LifespanSweepBegin
    \/ LifespanSweepScan
    \/ LifespanEnd

\* ----------------------------------------------------------- TaskManager()
\* Where a constructing thread is when its call is over: the importing thread
\* has run line 278 and the module is usable, another thread is outside.
CtorEnd(k) == IF k = Importer THEN "imported" ELSE "out"

\* __new__, line 56: the unlocked test of cls._instance, and line 60 when it is
\* not None.  No thread can reach the class before line 278 has run: the
\* module's import is not over until then.
CtorNew(k) ==
    /\ kpc[k] = (IF k = Importer THEN "import" ELSE "out")
    /\ k # Importer => kpc[Importer] = "imported"
    /\ IF instance = NoInstance
         THEN /\ kpc' = [kpc EXCEPT ![k] = "newlock"]
              /\ kobj' = kobj
         ELSE /\ kpc' = [kpc EXCEPT ![k] = "init"]
              /\ kobj' = [kobj EXCEPT ![k] = instance]
    /\ UNCHANGED <<heap, tasks, nextId, queue, lock, now, workerVars, clientVars,
                   sweepVars, counts, shutVars, instance, initialized, inits>>

\* Lines 57-60: under the class lock, the second test, the construction and
\* the return.
CtorNewLocked(k) ==
    /\ kpc[k] = "newlock"
    /\ instance' = IF instance = NoInstance THEN NewObject(instance)
                                            ELSE instance
    /\ kobj' = [kobj EXCEPT ![k] = instance']
    /\ kpc' = [kpc EXCEPT ![k] = "init"]
    /\ UNCHANGED <<heap, tasks, nextId, queue, lock, now, workerVars, clientVars,
                   sweepVars, counts, shutVars, initialized, inits>>

\* __init__, line 66: if not hasattr(self, '_initialized').
CtorInitCheckAlways(k) ==
    /\ kpc[k] = "init"
    /\ kpc' = [kpc EXCEPT ![k] = "body1"]
    /\ inits' = inits + 1
    /\ kobj' = kobj
    /\ UNCHANGED <<heap, tasks, nextId, queue, lock, now, workerVars, clientVars,
                   sweepVars, counts, shutVars, instance, initialized>>

CtorInitCheck(k) ==
    /\ kpc[k] = "init"
    /\ IF kobj[k] \in initialized
         THEN /\ kpc' = [kpc EXCEPT ![k] = CtorEnd(k)]
              /\ kobj' = [kobj EXCEPT ![k] = NoInstance]
              /\ inits' = inits
         ELSE /\ kpc' = [kpc EXCEPT ![k] = "body1"]
              /\ kobj' = kobj
              /\ inits' = inits + 1
    /\ UNCHANGED <<heap, tasks, nextId, queue, lock, now, workerVars, clientVars,
                   sweepVars, counts, shutVars, instance, initialized>>

CtorBodyPc == <<"body1", "body2", "body3", "body4">>

\* Lines 67-73, one assignment a step: a new empty dict, a new executor (its
\* queue empty, not shut down), a new free RLock, the _initialized mark.
CtorBody(k, i) ==
    /\ kpc[k] = CtorBodyPc[i]
    /\ kpc' = [kpc EXCEPT ![k] = IF i = 4 THEN CtorEnd(k) ELSE CtorBodyPc[i + 1]]
    /\ kobj' = IF i = 4 THEN [kobj EXCEPT ![k] = NoInstance] ELSE kobj
    /\ tasks' = IF i = 1 THEN {} ELSE tasks
    /\ queue' = IF i = 2 THEN <<>> ELSE queue
    /\ down' = IF i = 2 THEN FALSE ELSE down
    /\ lock' = IF i = 3 THEN NoThread ELSE lock
    /\ initialized' = IF i = 4 THEN initialized \cup {kobj[k]} ELSE initialized
    /\ UNCHANGED <<heap, nextId, now, workerVars, clientVars, sweepVars, counts,
                   spc, sbefore, squeued, instance, inits>>

Ctor(k) ==
    \/ CtorNew(k)
    \/ CtorNewLocked(k)
    \/ CtorInitCheck(k)
    \/ \E i \in 1..4 : CtorBody(k, i)

\* ------------------------------------------------------------------ clock
TickTo(last) ==
    /\ now < last
    /\ now' = now + 1
    /\ UNCHANGED <<heap, tasks, nextId, queue, lock, workerVars, clientVars,
                   sweepVars,
                   counts, shutVars,
                   ctorVars>>

Tick == TickTo(MaxTime)

\* The application's last hours, long enough for a record to outlive the
\* lifespan handler's max_age_hours.
LifeTick == TickTo(MaxLifeTime)

\* --------------------------------------------------------- specifications
\* The orchestrator with one caller thread, which runs one public operation at
\* a time (Create, Status, Counts, Sweep), beside the pool threads, while the
\* executor is up.  ShutdownSpec below has the thread that shuts it down.
Next ==
    \/ \E w \in Workers : Worker(w)
    \/ CreateInsert(MaxTasks)
    \/ CreateSubmit
    \/ CreateDone
    \/ StatusEndpoint
    \/ Counts
    \/ Sweeper
    \/ Tick

Spec == Init /\ [][Next]_vars

\* The pool threads beside a caller that creates jobs and polls them.  The
\* sweeper is left out: it only deletes keys of the table and never writes a
\* record.
StatusNext ==
    \/ \E w \in Workers : Worker(w)
    \/ CreateInsert(MaxTasks)
    \/ CreateSubmit
    \/ CreateDone
    \/ StatusEndpoint

StatusSpec == Init /\ [][StatusNext]_vars

\* The pool threads beside a caller that creates jobs and sweeps the table as
\* the clock advances.  The status endpoint is left out: it only reads.
SweepNext ==
    \/ \E w \in Workers : Worker(w)
    \/ CreateInsert(MaxTasks)
    \/ CreateSubmit
    \/ CreateDone
    \/ Sweeper
    \/ Tick

SweepSpec == Init /\ [][SweepNext]_vars

\* The worker pool under load: more jobs than pool threads, Create the only
\* public operation.
PoolNext ==
    \/ \E w \in Workers : Worker(w)
    \/ CreateInsert(MaxPoolTasks)
    \/ CreateSubmit
    \/ CreateDone

PoolSpec == Init /\ [][PoolNext]_vars

\* Fair scheduling of the pool threads: a thread that can take a step does.
FairPoolSpec == PoolSpec /\ \A w \in Workers : WF_vars(Worker(w))

\* The worker pool under load beside a caller that runs any of Create, Status,
\* Counts and Sweep (the clock stands still: nothing is old enough to go).
OpsNext ==
    \/ \E w \in Workers : Worker(w)
    \/ CreateInsert(MaxPoolTasks)
    \/ CreateSubmit
    \/ CreateDone
    \/ StatusEndpoint
    \/ Counts
    \/ Sweeper

OpsSpec == Init /\ [][OpsNext]_vars

\* The application while it serves: the pool threads and the endpoints that
\* create jobs, poll them and count them, as the clock advances.  The pool
\* threads are scheduled fairly and time passes; requests come as they may.
ServingNext ==
    \/ \E w \in Workers : Worker(w)
    \/ CreateInsert(MaxTasks)
    \/ CreateSubmit
    \/ CreateDone
    \/ StatusEndpoint
    \/ Counts
    \/ Tick

FairServingSpec ==
    /\ Init
    /\ [][ServingNext]_vars
    /\ \A w \in Workers : WF_vars(Worker(w))
    /\ WF_vars(Tick)

\* The application's exit: the lifespan handler shuts the executor down and
\* then sweeps, while jobs are created and run and the clock advances.
LifespanNext ==
    \/ \E w \in Workers : Worker(w)
    \/ ServeCreate
    \/ LifespanShutdown
    \/ LifespanCleanup
    \/ LifeTick

LifespanSpec == Init /\ [][LifespanNext]_vars

\* The process from the import of the module on: line 278 constructs the
\* manager, and from then on jobs are created and run while threads evaluate
\* TaskManager() again, one beside another.
ImportInit ==
    /\ heap = [t \in TaskIds |-> NoObj]
    /\ tasks = {}
    /\ nextId = 0
    /\ queue = <<>>
    /\ lock = NoThread
    /\ now = 0
    /\ wpc = [w \in Workers |-> "idle"]
    /\ wtask = [w \in Workers |-> NoTask]
    /\ wstep = [w \in Workers |-> NoStep]
    /\ wmsg = [w \in Workers |-> None]
    /\ cpc = "idle"
    /\ cid = NoTask
    /\ cafter = FALSE
    /\ resp = NoResp
    /\ scutoff = 0
    /\ sremoved = 0
    /\ counts = NoCounts
    /\ down = FALSE
    /\ spc = "up"
    /\ sbefore = 0
    /\ squeued = 0
    /\ instance = NoInstance
    /\ initialized = {}
    /\ inits = 0
    /\ kpc = [k \in Ctors |-> IF k = Importer THEN "import" ELSE "out"]
    /\ kobj = [k \in Ctors |-> NoInstance]

CtorNext ==
    \/ \E k \in Ctors : Ctor(k)
    \/ /\ kpc[Importer] = "imported"
       /\ \/ \E w \in Workers : Worker(w)
          \/ CreateInsert(MaxTasks)
          \/ CreateSubmit
          \/ CreateDone

CtorSpec == ImportInit /\ [][CtorNext]_vars

\* One job inside its backend call, for every num_inference_steps a request may
\* carry; the pipeline reports its steps in growing order and returns.
ProgressInit ==
    /\ \E request \in 1..MaxInferenceSteps :
         heap = [t \in TaskIds |->
                   IF t = 1
                     THEN [NewTaskInfo(request, 0) EXCEPT
                             !.status = IN_PROGRESS, !.progress = 10,
                             !.started_at = Stamp(0)]
                     ELSE NoObj]
    /\ tasks = {1}
    /\ nextId = 1
    /\ queue = <<>>
    /\ lock = NoThread
    /\ now = 0
    /\ wpc = [w \in Workers |-> IF w = 1 THEN "backend" ELSE "idle"]
    /\ wtask = [w \in Workers |-> IF w = 1 THEN 1 ELSE NoTask]
    /\ wstep = [w \in Workers |-> NoStep]
    /\ wmsg = [w \in Workers |-> None]
    /\ cpc = "idle"
    /\ cid = NoTask
    /\ cafter = FALSE
    /\ resp = NoResp
    /\ scutoff = 0
    /\ sremoved = 0
    /\ counts = NoCounts
    /\ down = FALSE
    /\ spc = "up"
    /\ sbefore = 0
    /\ squeued = 0
    /\ instance = NewObject(NoInstance)
    /\ initialized = {instance}
    /\ inits = 1
    /\ kpc = [k \in Ctors |-> IF k = Importer THEN "imported" ELSE "out"]
    /\ kobj = [k \in Ctors |-> NoInstance]

ProgressNext ==
    \E w \in Workers :
        \/ PipelineCallback(w)
        \/ BackendReturn(w)
        \/ Progress95(w)

ProgressSpec == ProgressInit /\ [][ProgressNext]_vars

\* The worker pool under load with a thread that shuts the executor down at
\* any moment, also in the middle of a create_task call.
ShutdownNext ==
    \/ \E w \in Workers : Worker(w)
    \/ CreateInsert(MaxPoolTasks)
    \/ CreateSubmit
    \/ CreateDone
    \/ Shutdown

ShutdownSpec == Init /\ [][ShutdownNext]_vars

\* ------------------------------------------------------------------ claims
Terminal(t) == heap[t].status \in TerminalStatus
InQueue(t) == \E i \in 1..Len(queue) : queue[i] = t
Running == {t \in tasks : heap[t].status = IN_PROGRESS}

\* The result/error pairing of one record.
RecordPaired(ti) ==
    /\ ti.status = COMPLETED => (ti.result # None /\ ti.error = None)
    /\ ti.status = FAILED => (ti.error # None /\ ti.result = None)
    /\ ti.status \in {PENDING, IN_PROGRESS} => (ti.result = None /\ ti.error = None)

C2_NoPartialObservation ==
    ~(cpc = "done" /\ resp.body \in {"result_missing", "unknown_error"})

\* C3: at most MaxWorkers records are Running at a time, however many jobs
\* have been created.
C3_RunningAtMostCapacity ==
    Cardinality(Running) <= MaxWorkers

C3_Witness ==
    /\ Cardinality(Running) = MaxWorkers
    /\ queue # <<>>
    /\ heap[Head(queue)].status = PENDING

\* C4: under fair scheduling of the pool threads, with a backend that returns
\* or raises, every job handed to the pool reaches Completed or Failed, also
\* when more jobs than pool threads are submitted.
C4_EveryJobTerminates ==
    \A t \in TaskIds : InQueue(t) ~> Terminal(t)

C4_Witness ==
    /\ nextId = MaxPoolTasks
    /\ MaxPoolTasks > MaxWorkers
    /\ \A t \in 1..MaxPoolTasks : Terminal(t)

\* C5: every change of a record's status is Pending -> Running, Running ->
\* Completed or Running -> Failed.  The three pairs form no cycle, so each is
\* taken at most once per job, and no job leaves Pending for a terminal state.
C5_StatusTransitions ==
    [][\A t \in TaskIds :
         (t \in tasks /\ heap'[t].status # heap[t].status) =>
            <<heap[t].status, heap'[t].status>> \in
                {<<PENDING, IN_PROGRESS>>, <<IN_PROGRESS, COMPLETED>>,
                 <<IN_PROGRESS, FAILED>>}]_vars

C5_Witness ==
    /\ \E t \in tasks : heap[t].status = COMPLETED /\ heap[t].started_at # None
    /\ \E t \in tasks : heap[t].status = FAILED /\ heap[t].started_at # None

C7_ImmediateStatusPending ==
    (cpc = "done" /\ cafter) =>
        (resp.code = 200 /\ resp.status = PENDING /\ resp.progress = 0)

\* C7 amended: that Status call answers Pending with progress 0 when the job
\* is still waiting in the pool's queue as the call ends.
C7_ImmediateStatusUndispatched ==
    (cpc = "done" /\ cafter /\ InQueue(cid)) =>
        resp = [code |-> 200, status |-> PENDING, progress |-> 0, body |-> None]

C7_Witness ==
    cpc = "done" /\ cafter /\ InQueue(cid) /\ resp.code = 200

\* C8: a record's stored progress never decreases, so the values successive
\* Status calls read from it never decrease (the backend reports growing step
\* numbers).
C8_ProgressMonotone ==
    [][\A t \in tasks : heap'[t].progress >= heap[t].progress]_vars

C8_Witness ==
    \E w \in Workers :
        /\ wpc[w] = "backend"
        /\ wstep[w] >= 1
        /\ heap[wtask[w]].progress > ProgressValue(0, NumSteps(heap[wtask[w]].request))

C10_SweepExact ==
    [][(cpc = "scan" /\ cpc' = "ret") =>
         LET removed == {t \in tasks : /\ heap[t].status \in {COMPLETED, FAILED}
                                       /\ heap[t].created_at < scutoff}
         IN /\ tasks' = tasks \ removed
            /\ sremoved' = Cardinality(removed)
            /\ heap' = heap]_vars

C10_Witness ==
    /\ cpc = "ret"
    /\ sremoved >= 1
    /\ \E t \in tasks : Terminal(t)

\* C11: whatever max_age a sweep is called with, a record that leaves the table
\* is Completed or Failed in the state it is removed from; a Pending or
\* Running record is never removed.
C11_SweepSparesNonTerminal ==
    [][\A t \in tasks :
         t \notin tasks' => heap[t].status \in {COMPLETED, FAILED}]_vars

C11_Witness ==
    /\ cpc = "ret"
    /\ \E t \in tasks :
         /\ heap[t].status \in {PENDING, IN_PROGRESS}
         /\ heap[t].created_at < scutoff

\* C12: the lookup of get_task_status finds no record exactly for an id that
\* was never issued or whose record a sweep removed; for every id in the table,
\* a Failed job's included, the caller gets the record and nothing is raised.
C12_StatusNotFoundExactly ==
    [][(cpc = "r139" /\ cpc' # "r139") =>
         /\ (cpc' = "done" /\ resp'.code = 404) <=> (cid > nextId \/ cid \notin tasks)
         /\ cid \in tasks => (cpc' = "r149" /\ resp' = resp)]_vars

C12_Witness ==
    /\ cpc = "done"
    /\ resp.code = 404
    /\ cid \in 1..nextId
    /\ \E t \in tasks : heap[t].status = FAILED

\* A text that ends with the message m after one of the wrappers' prefixes.
MessagePrefixes ==
    {"", "generate_failed: ", "task_error: ", "task_error: generate_failed: "}
Contains(text, m) == \E p \in MessagePrefixes : text = p \o m

\* C13: when the backend raises, the pool thread goes to the except clause and
\* on to the end of _execute_task (nothing is raised out of it): the record
\* goes Running -> Failed, its error holds the backend's message, its result
\* stays unset and completed_at is stamped.
C13_BackendFailureContained ==
    [][\A w \in Workers :
         /\ (wpc[w] = "backend" /\ wpc'[w] \notin {"backend", "prog95"}) =>
                wpc'[w] = "fail1"
         /\ (wpc[w] = "fail1" /\ wpc'[w] # "fail1") =>
                /\ heap[wtask[w]].status = IN_PROGRESS
                /\ heap'[wtask[w]].status = FAILED
         /\ (wpc[w] = "fail3" /\ wpc'[w] # "fail3") =>
                /\ wpc'[w] = "idle"
                /\ heap'[wtask[w]].status = FAILED
                /\ heap'[wtask[w]].result = None
                /\ heap'[wtask[w]].completed_at # None
                /\ \E m \in BackendMessages : Contains(heap'[wtask[w]].error, m)]_vars

C13_Witness ==
    \E t \in tasks :
        /\ heap[t].status = FAILED
        /\ heap[t].completed_at # None
        /\ \E m \in BackendMessages : Contains(heap[t].error, m)
        /\ \E w \in Workers : wpc[w] = "idle"

\* C14: jobs ending in Failed cost the pool no thread.  When every job made so
\* far is over, every pool thread is idle again; and under fair scheduling a
\* job queued when some job has already failed is dispatched and reaches
\* Completed or Failed.  (The first job is never queued behind a failure.)
C14_PoolSurvivesFailures ==
    /\ [](( /\ queue = <<>>
            /\ lock = NoThread
            /\ cpc = "idle"
            /\ \A t \in 1..nextId : Terminal(t)) =>
           \A w \in Workers : wpc[w] = "idle")
    /\ \A t \in TaskIds \ {1} :
         (InQueue(t) /\ \E u \in tasks : heap[u].status = FAILED) ~> Terminal(t)

C14_Witness ==
    /\ \A t \in 1..MaxWorkers : heap[t].status = FAILED
    /\ \E t \in TaskIds : t > MaxWorkers /\ Terminal(t)
    /\ \A w \in Workers : wpc[w] = "idle"

AllBusy == \A w \in Workers : wpc[w] = "backend"

\* C15: a pool thread inside generate_image does not hold the table lock; so
\* with every pool thread inside it the caller's next step of Create, Status,
\* Counts or Sweep can be taken at once, and a create_task that submits then
\* returns with its job Pending in the executor's queue.
C15_BackendOutsideLock ==
    /\ [](\A w \in Workers : wpc[w] = "backend" => lock # w)
    /\ [](AllBusy =>
            /\ (cpc = "idle" /\ nextId < MaxPoolTasks) => ENABLED CreateInsert(MaxPoolTasks)
            /\ cpc = "submit" => ENABLED CreateSubmit
            /\ cpc = "r139" => ENABLED GetTaskStatus
            /\ cpc = "idle" => ENABLED GetTaskCount
            /\ cpc = "scan" => ENABLED SweepScan)
    /\ [][(AllBusy /\ cpc = "submit" /\ cpc' # "submit") =>
            /\ cpc' = "created"
            /\ \E i \in 1..Len(queue') : queue'[i] = cid
            /\ heap'[cid].status = PENDING
            /\ heap'[cid].progress = 0]_vars

C15_Witness ==
    /\ AllBusy
    /\ cpc = "created"
    /\ InQueue(cid)
    /\ heap[cid].status = PENDING

\* C16: at most one pool thread is inside generate_image at a time.
C16_BackendExclusive ==
    Cardinality({w \in Workers : wpc[w] = "backend"}) <= 1

\* C17: when shutdown has returned, every job whose create_task had returned
\* before shutdown was called is Completed or Failed with completed_at
\* stamped: the running ones and the queued ones, none cancelled.
C17_ShutdownDrains ==
    spc = "returned" =>
        \A t \in 1..sbefore :
            /\ Terminal(t)
            /\ heap[t].started_at # None
            /\ heap[t].completed_at # None

C17_Witness ==
    /\ spc = "returned"
    /\ squeued >= 1
    /\ sbefore > MaxWorkers

\* C18: create_task never raises, also when it is called after shutdown or
\* while shutdown is under way.
C18_CreateNeverRaises ==
    cpc # "raised"

\* C19: the dict get_task_count returns holds, for each status, the number of
\* records of the table with that status in the one state the call reads, and
\* a total that is the size of the table in that state and the sum of the four.
C19_CountsConsistent ==
    [][(cpc = "idle" /\ cpc' = "counted") =>
         /\ heap' = heap /\ tasks' = tasks
         /\ \A st \in {PENDING, IN_PROGRESS, COMPLETED, FAILED} :
              counts'[st] = Cardinality({t \in tasks : heap[t].status = st})
         /\ counts'["total"] = Cardinality(tasks)
         /\ counts'["total"] = counts'[PENDING] + counts'[IN_PROGRESS]
                                + counts'[COMPLETED] + counts'[FAILED]]_vars

C19_Witness ==
    /\ cpc = "counted"
    /\ counts[IN_PROGRESS] >= 1
    /\ counts["total"] < nextId
    /\ \E w \in Workers : wpc[w] = "backend"

\* C20: what a Status call answers is a snapshot of the record.  A record is
\* Pending only with progress 0 and Running only with progress up to 95, so an
\* answer read at one instant pairs them that way.
C20_StatusIsSnapshot ==
    (cpc = "done" /\ resp.code = 200) =>
        /\ resp.status = PENDING => resp.progress = 0
        /\ resp.status = IN_PROGRESS => resp.progress <= 95

\* C21: every write to a field of a record that exists is made by a thread
\* that holds the table lock: when the step begins the lock is free for the
\* writer to take, or the writer, the thread whose step it is, already owns it.
C21_WritesUnderLock ==
    [][\A t \in TaskIds :
         (heap[t] # NoObj /\ heap'[t] # heap[t]) =>
             \/ lock = NoThread
             \/ \E w \in Workers : lock = w /\ wpc'[w] # wpc[w]]_vars

\* C22: while the application serves, every record in a terminal state that
\* has grown older than a retention age is eventually removed from the table.
C22_OldTerminalEventuallySwept ==
    \A t \in TaskIds : \A age \in 0..MaxAge :
        (t \in tasks /\ Terminal(t) /\ heap[t].created_at < now - age)
            ~> (t \notin tasks)

\* C23: what the status endpoint answers follows from one record: a success
\* response either names a Pending or Running state and carries no result, or
\* names Completed and carries a stored result; a Failed record and a
\* Completed record with no result are answered with an error, never with a
\* success.
C23_ResponseFollowsRecord ==
    (cpc = "done" /\ resp.code = 200) =>
        \/ resp.status \in {PENDING, IN_PROGRESS} /\ resp.body = None
        \/ resp.status = COMPLETED /\ resp.body \in Results

\* C24: while the backend call of a job is under way its stored progress lies
\* in 10..90: it is 10 until the first callback, and after the callback for
\* step s of n it is min(90, 20 + floor(70 * (s + 1) / max(1, n))); 95 and 100
\* are stored only once the backend has returned.
C24_BackendBand ==
    \A w \in Workers :
        wpc[w] = "backend" =>
            LET ti == heap[wtask[w]]
                n == NumSteps(ti.request)
            IN /\ ti.progress \in 10..90
               /\ wstep[w] = NoStep => ti.progress = 10
               /\ wstep[w] # NoStep =>
                      ti.progress =
                          Min(90, 20 + ((70 * (wstep[w] + 1)) \div Max(1, n)))

\* The progress values a callback stores.
CallbackBand == 20..90

\* C25: a job whose backend never calls the progress callback still runs
\* Pending, Running, Completed, and its progress takes the values 0, 10, 95,
\* 100 in that order: every change of a record's progress is 0 to 10 or 10 to
\* 95 on a Running record, 95 to 100 on a record made Completed, or the work
\* of a callback (a value of the callback band stored, or 95 stored over it).
C25_ProgressWithoutCallback ==
    [][\A t \in tasks :
         heap'[t].progress # heap[t].progress =>
             LET old == heap[t].progress
                 new == heap'[t].progress
             IN \/ old = 0 /\ new = 10 /\ heap[t].status = IN_PROGRESS
                \/ old = 10 /\ new = 95 /\ heap[t].status = IN_PROGRESS
                \/ old = 95 /\ new = 100 /\ heap[t].status = COMPLETED
                \/ old \in {10} \cup CallbackBand /\ new \in CallbackBand
                \/ old \in CallbackBand /\ new = 95]_vars

\* The backend has returned and no callback has moved the progress off 10.
C25_Witness ==
    \E w \in Workers :
        /\ wpc[w] = "prog95"
        /\ heap[wtask[w]].status = IN_PROGRESS
        /\ heap[wtask[w]].progress = 10

\* C26: failing a job leaves its progress as it was: the step that makes a
\* record Failed, and every step after it, keeps the record's progress at the
\* last value stored before the failure and its result unset.
C26_FailKeepsProgress ==
    [][\A t \in tasks :
         heap'[t].status = FAILED =>
             /\ heap'[t].progress = heap[t].progress
             /\ heap'[t].result = None]_vars

\* A job has failed after a callback had stored a progress of the band.
C26_Witness ==
    \E t \in tasks :
        /\ heap[t].status = FAILED
        /\ heap[t].completed_at # None
        /\ heap[t].progress \in CallbackBand
        /\ heap[t].result = None

\* C27: whenever no thread is inside a critical section, every record that is
\* Running, Completed or Failed has started_at set, and a record has
\* completed_at set exactly when it is Completed or Failed.
C27_TimestampsFollowState ==
    lock = NoThread =>
        \A t \in tasks :
            /\ heap[t].status \in {IN_PROGRESS, COMPLETED, FAILED} =>
                   heap[t].started_at # None
            /\ heap[t].completed_at # None <=> Terminal(t)

\* C28: with sweeps interleaved at will, a worker that has a job in hand always
\* finds the job's record in the table: the "not found" return of
\* _execute_task and the no-op branches of the update helpers are never taken.
C28_WorkerRecordPresent ==
    \A w \in Workers :
        wpc[w] \notin {"idle", "exited"} => wtask[w] \in tasks

\* A sweep has just removed a record while a worker is inside the backend call
\* of another.
C28_Witness ==
    /\ cpc = "ret"
    /\ sremoved >= 1
    /\ \E w \in Workers : wpc[w] = "backend" /\ wtask[w] \in tasks

\* C29: a create_task call that raises leaves no record for its id in the
\* table.
C29_FailedCreateLeavesNoRecord ==
    cpc = "raised" => cid \notin tasks

\* C30: at application exit the sweep comes after Shutdown has returned: when
\* the lifespan handler calls cleanup_old_tasks every pool thread has been
\* joined, the queue is empty and no record is Pending or Running; the cutoff
\* it takes is one hour before the call, and its scan removes exactly the
\* terminal records created before that cutoff, leaving the younger ones.
C30_ExitSweepAfterShutdown ==
    [][/\ spc' = "lscan" /\ spc # "lscan" =>
             /\ spc = "returned"
             /\ \A w \in Workers : wpc[w] = "exited"
             /\ queue = <<>>
             /\ \A t \in tasks : Terminal(t)
             /\ scutoff' = now - 1
       /\ spc = "lscan" /\ spc' # "lscan" =>
             /\ heap' = heap
             /\ \A t \in tasks : Terminal(t)
             /\ tasks \ tasks' = {t \in tasks : heap[t].created_at < scutoff}
             /\ \A t \in tasks' : heap[t].created_at >= scutoff]_vars

\* The exit sweep has removed an old terminal record and left a younger one.
C30_Witness ==
    /\ spc = "lret"
    /\ sremoved >= 1
    /\ \E t \in tasks : Terminal(t) /\ heap[t].created_at >= scutoff

\* C31: once the module's own construction is over, every further TaskManager()
\* returns the one instance and changes nothing of it: the instance, the job
\* table, the executor's queue and flag and the lock stay as they are through
\* every step of the call, several calls running side by side included, and
\* the body of __init__ has been entered once and is not entered again.
C31_ReconstructionKeepsManager ==
    [][\A k \in Ctors :
         (kpc[Importer] = "imported" /\ kpc'[k] # kpc[k]) =>
             /\ instance' = instance
             /\ kpc'[k] = "init" => kobj'[k] = instance
             /\ tasks' = tasks /\ heap' = heap
             /\ queue' = queue /\ down' = down /\ wpc' = wpc
             /\ lock' = lock
             /\ inits = 1 /\ inits' = 1]_vars

\* Two threads are inside TaskManager() at once while the table holds a record
\* and a pool thread runs a job.
C31_Witness ==
    /\ \E k1 \in Ctors, k2 \in Ctors :
         /\ k1 # k2
         /\ kpc[k1] = "init" /\ kobj[k1] = instance
         /\ kpc[k2] = "init" /\ kobj[k2] = instance
    /\ tasks # {}
    /\ \E w \in Workers : wpc[w] = "backend"

====
